---- MODULE Spec2Model ----
(***************************************************************************)
(* Verification model of the pitch-perfect analysis wizard (the Home page  *)
(* component) and of the API client it calls.                              *)
(*                                                                         *)
(* React state is the VARIABLES; every event handler is one atomic action  *)
(* (React re-renders after each discrete event, so a handler always sees   *)
(* the state left by the previous one).  handleAnalyze is asynchronous: it *)
(* is split at its awaits, and the values its closure captured live in     *)
(* `run`.  The network and the interval timers are environment state.      *)
(*                                                                         *)
(* null / undefined are the string "null" for string-valued state and the  *)
(* record NoEntry for a missing staged entry.                              *)
(***************************************************************************)
EXTENDS Integers, Sequences, FiniteSets, Bags, TLC

(***************************************************************************)
(* Bounds of the model                                                      *)
(***************************************************************************)
\* longest FileList a single drag-and-drop delivers
MaxDrop == 2
\* most interval timers alive at once (leaked ones included)
MaxTickers == 1
\* most theme toggles followed in one page load
MaxToggles == 2
\* longest word list given to calculateSpeedDistribution
MaxWords == 3

(***************************************************************************)
(* Files.  A File is [type, name]: `type` is the mime type as the pair     *)
(* <<top-level, subtype>> (<<>> is the empty string), `name` is the file   *)
(* name as a sequence of characters.                                       *)
(***************************************************************************)
Chr(c) ==
  CASE c = "M" -> "m" [] c = "P" -> "p" [] c = "D" -> "d" [] c = "F" -> "f"
    [] c = "W" -> "w" [] c = "A" -> "a" [] c = "V" -> "v" [] c = "E" -> "e"
    [] c = "B" -> "b" [] c = "T" -> "t" [] c = "X" -> "x"
    [] OTHER -> c

\* String.prototype.toLowerCase
ToLowerCase(s) == [i \in 1..Len(s) |-> Chr(s[i])]

\* String.prototype.endsWith
EndsWith(s, suffix) ==
  /\ Len(suffix) <= Len(s)
  /\ SubSeq(s, Len(s) - Len(suffix) + 1, Len(s)) = suffix

\* String.prototype.startsWith("audio/") on a mime type
StartsWithAudio(mime) == Len(mime) = 2 /\ mime[1] = "audio"

Mp3Ext  == <<".", "m", "p", "3">>
Mp4Ext  == <<".", "m", "p", "4">>
WavExt  == <<".", "w", "a", "v">>
WebmExt == <<".", "w", "e", "b", "m">>
PdfExt  == <<".", "p", "d", "f">>

PdfMime == <<"application", "pdf">>

audioTypes == { <<"audio", "mpeg">>, <<"audio", "mp3">>, <<"audio", "wav">>,
                <<"video", "mp4">>, <<"audio", "webm">>, <<"video", "webm">> }
pdfTypes == { PdfMime }
audioExtensions == { Mp3Ext, Mp4Ext, WavExt, WebmExt }
pdfExtensions == { PdfExt }

\* a faulty validateFile, for comparison: every file passes
ValidateFileAcceptAll(file) == TRUE

validateFile(file) ==
  LET isAudioType == file.type \in audioTypes
      isAudioExtension == \E ext \in audioExtensions : EndsWith(ToLowerCase(file.name), ext)
      isPdfType == file.type \in pdfTypes
      isPdfExtension == \E ext \in pdfExtensions : EndsWith(ToLowerCase(file.name), ext)
  IN  isAudioType \/ isAudioExtension \/ isPdfType \/ isPdfExtension

getFileType(file) ==
  IF file.type = PdfMime \/ EndsWith(ToLowerCase(file.name), PdfExt)
  THEN "pdf"
  ELSE IF \/ StartsWithAudio(file.type)
          \/ EndsWith(ToLowerCase(file.name), Mp3Ext)
          \/ EndsWith(ToLowerCase(file.name), WavExt)
       THEN "audio"
       ELSE "video"

WavFile == [type |-> <<"audio", "wav">>, name |-> <<"a", ".", "w", "a", "v">>]
Mp4File == [type |-> <<"video", "mp4">>, name |-> <<"b", ".", "M", "P", "4">>]
PdfFile == [type |-> PdfMime, name |-> <<"d", ".", "p", "d", "f">>]
TxtFile == [type |-> <<"text", "plain">>, name |-> <<"n", ".", "t", "x", "t">>]
\* what the recorder component hands to onRecordingComplete
RecordedFile == [type |-> <<"audio", "webm">>, name |-> <<"r", ".", "w", "e", "b", "m">>]

\* the files the wizard is driven with, one at a time
WizardFiles == { WavFile, PdfFile, TxtFile }
\* the files the staging handlers are driven with, up to MaxDrop at a time
StagingFiles == { Mp4File, PdfFile, TxtFile }

\* every combination of mime type and file-name ending, for the intake specification
AllMimes == audioTypes \cup pdfTypes \cup
            { <<"audio", "ogg">>, <<"text", "plain">>, <<>> }
AllNames == { <<"x">> \o e : e \in audioExtensions \cup pdfExtensions }
            \cup { <<"x", ".", "M", "P", "3">>, <<"x", ".", "P", "d", "f">>,
                   <<"x", ".", "t", "x", "t">>, <<"m", "p", "3">> }
AllFiles == { [type |-> m, name |-> n] : m \in AllMimes, n \in AllNames }

FileListsOf(S) == UNION { [1..n -> S] : n \in 1..MaxDrop }

(***************************************************************************)
(* Staged entries (FileWithPreview) and the derived audioVideoFile/pdfFile *)
(***************************************************************************)
NoFile == [type |-> <<>>, name |-> <<>>]
NoEntry == [file |-> NoFile, id |-> 0, type |-> "undefined"]

\* Array.prototype.find on the type of the entries: the first entry whose
\* type is one of `types`, or undefined
Find(list, types) ==
  IF \E i \in 1..Len(list) : list[i].type \in types
  THEN list[CHOOSE i \in 1..Len(list) :
              /\ list[i].type \in types
              /\ \A j \in 1..(i - 1) : list[j].type \notin types]
  ELSE NoEntry

AudioVideoFileOf(list) == Find(list, { "audio", "video" })
PdfFileOf(list) == Find(list, { "pdf" })

Ids(list) == { list[i].id : i \in 1..Len(list) }

\* ids are `${file.name}-${Date.now()}-${Math.random()}`: distinct from every
\* id in use.  The k-th id generated by one handler call on list `list`:
FreshId(list, k) ==
  LET used == Ids(list)
      free == { i \in 1..(Cardinality(used) + k) : i \notin used }
  IN  CHOOSE i \in free : Cardinality({ j \in free : j < i }) = k - 1

(***************************************************************************)
(* Navigation: pure functions of (currentStep, analysisType, audioMethod)  *)
(***************************************************************************)
WizardSteps == { "type", "audio-method", "audio-upload", "audio-record",
                 "slides", "context", "analyzing", "results" }
InputSteps == WizardSteps \ { "analyzing", "results" }
AnalysisTypes == { "speech", "slides", "both" }
AudioMethods == { "upload", "record" }

\* a faulty getNextStep, for comparison: the audio steps always lead to context
GetNextStepSkippingSlides(step, aType, aMethod) ==
  CASE step = "type" ->
         IF aType = "speech" \/ aType = "both" THEN "audio-method"
         ELSE IF aType = "slides" THEN "slides"
         ELSE "null"
    [] step = "audio-method" ->
         IF aMethod = "upload" THEN "audio-upload"
         ELSE IF aMethod = "record" THEN "audio-record"
         ELSE "null"
    [] step \in { "audio-upload", "audio-record", "slides" } -> "context"
    [] step = "context" -> "analyzing"
    [] OTHER -> "null"

getNextStep(step, aType, aMethod) ==
  CASE step = "type" ->
         IF aType = "speech" \/ aType = "both" THEN "audio-method"
         ELSE IF aType = "slides" THEN "slides"
         ELSE "null"
    [] step = "audio-method" ->
         IF aMethod = "upload" THEN "audio-upload"
         ELSE IF aMethod = "record" THEN "audio-record"
         ELSE "null"
    [] step \in { "audio-upload", "audio-record" } ->
         IF aType = "both" THEN "slides" ELSE "context"
    [] step = "slides" -> "context"
    [] step = "context" -> "analyzing"
    [] OTHER -> "null"

\* a faulty getPrevStep, for comparison: slides always leads back to type
GetPrevStepForgettingBoth(step, aType, aMethod) ==
  CASE step = "audio-method" -> "type"
    [] step \in { "audio-upload", "audio-record" } -> "audio-method"
    [] step = "slides" -> "type"
    [] step = "context" ->
         IF aType = "slides" THEN "slides"
         ELSE (IF aMethod = "upload" THEN "audio-upload" ELSE "audio-record")
    [] OTHER -> "null"

\* a faulty getPrevStep, for comparison: context always leads back to an audio step
GetPrevStepContextToAudio(step, aType, aMethod) ==
  CASE step = "audio-method" -> "type"
    [] step \in { "audio-upload", "audio-record" } -> "audio-method"
    [] step = "slides" ->
         IF aType = "slides" THEN "type"
         ELSE (IF aMethod = "upload" THEN "audio-upload" ELSE "audio-record")
    [] step = "context" ->
         IF aMethod = "upload" THEN "audio-upload" ELSE "audio-record"
    [] OTHER -> "null"

getPrevStep(step, aType, aMethod) ==
  CASE step = "audio-method" -> "type"
    [] step \in { "audio-upload", "audio-record" } -> "audio-method"
    [] step = "slides" ->
         IF aType = "both"
         THEN (IF aMethod = "upload" THEN "audio-upload" ELSE "audio-record")
         ELSE "type"
    [] step = "context" ->
         IF aType = "slides" THEN "slides"
         ELSE IF aType = "both" THEN "slides"
         ELSE (IF aMethod = "upload" THEN "audio-upload" ELSE "audio-record")
    [] OTHER -> "null"

(***************************************************************************)
(* API client: what a call of analyzeAudio / analyzePDF throws or returns  *)
(* for a reply.  A reply is [status, json, detail, error]: status "ok" is  *)
(* a 2xx response, "error" a non-2xx one, "network" a rejected fetch; json *)
(* says whether the body parses as JSON; detail/error are the body's       *)
(* fields, "absent" when the body has no such field.                       *)
(***************************************************************************)
Absent == "absent"

\* JavaScript truthiness of a string-or-undefined value
Truthy(v) == v # Absent /\ v # ""

\* a || b
Or(a, b) == IF Truthy(a) THEN a ELSE b

FetchFailedMessage == "Failed to fetch"

\* response.json().catch(() => ({ detail: fallback }))
ParsedBody(reply, fallback) ==
  IF reply.json THEN [detail |-> reply.detail, error |-> reply.error]
  ELSE [detail |-> fallback, error |-> Absent]

\* a faulty analyzeAudio, for comparison: the detail field is not read
AnalyzeAudioErrorIgnoringDetail(reply) ==
  IF reply.status = "network" THEN FetchFailedMessage
  ELSE "Failed to analyze audio"

\* message of the Error analyzeAudio throws for a failed reply
analyzeAudioError(reply) ==
  IF reply.status = "network" THEN FetchFailedMessage
  ELSE LET error == ParsedBody(reply, "Analysis failed")
       IN  Or(error.detail, Or(error.error, "Failed to analyze audio"))

\* message of the Error analyzePDF throws for a failed reply
analyzePDFError(reply) ==
  IF reply.status = "network" THEN FetchFailedMessage
  ELSE LET error == ParsedBody(reply, "PDF analysis failed")
       IN  Or(error.detail, "Failed to analyze PDF")

\* message of the Error generateImprovedPitch throws for a failed reply
generateImprovedPitchError(reply) ==
  IF reply.status = "network" THEN FetchFailedMessage
  ELSE LET error == ParsedBody(reply, "Failed to generate improved pitch")
       IN  Or(error.detail, "Failed to generate improved pitch")

AnalyzeEndpoint == "/analyze"
AnalyzePdfEndpoint == "/analyze-pdf"

ErrorOf(endpoint, reply) ==
  IF endpoint = AnalyzeEndpoint THEN analyzeAudioError(reply) ELSE analyzePDFError(reply)

OkReply == [status |-> "ok", json |-> TRUE, detail |-> Absent, error |-> Absent]
NetworkFailure == [status |-> "network", json |-> FALSE, detail |-> Absent, error |-> Absent]
ErrorReply(j, d, e) == [status |-> "error", json |-> j, detail |-> d, error |-> e]

\* the replies the server side is driven with
ServerReplies ==
  { OkReply, NetworkFailure,
    ErrorReply(TRUE, "model overloaded", Absent),
    ErrorReply(TRUE, "", Absent) }

\* the typed result stored for a successful reply
AudioAnalysisResponse == "AudioAnalysisResponse"
PDFAnalysisResponse == "PDFAnalysisResponse"

(***************************************************************************)
(* State                                                                    *)
(***************************************************************************)
VARIABLES
  currentStep, analysisType, audioMethod, slideDirection,   \* wizard state
  files, isDragging, title, description, recordedAudioUrl,  \* file state
  isAnalyzing, analysisComplete, audioResult, pdfResult,    \* analysis state
  analysisError, analysisProgress, currentAnalysisStep,
  dataTransfer,   \* the FileList of the drag hovering over the dropzone
  run,            \* the suspended handleAnalyze call: its closure and await
  requests,       \* requests issued and not yet answered
  replies,        \* answers that arrived and are not yet consumed
  tickers,        \* the live setInterval timers
  probe,          \* one call of a pure function: arguments and result
  isDark, mounted,  \* ThemeProvider state
  storedTheme,    \* localStorage item "theme" (Absent when there is none)
  rootLight,      \* document.documentElement.classList contains "light"
  prefersDark,    \* matchMedia("(prefers-color-scheme: dark)").matches
  effects         \* what React has still to run: "html", "mount", "apply", "idle"

wizardVars == << currentStep, analysisType, audioMethod, slideDirection >>
fileVars == << files, isDragging, title, description, recordedAudioUrl >>
analysisVars == << isAnalyzing, analysisComplete, audioResult, pdfResult,
                   analysisError, analysisProgress, currentAnalysisStep >>
envVars == << dataTransfer, run, requests, replies, tickers >>
themeVars == << isDark, mounted, storedTheme, rootLight, prefersDark, effects >>
vars == << wizardVars, fileVars, analysisVars, envVars, probe, themeVars >>

NullUrl == 0
\* a preview URL is identified by the id of the entry it was made for
UrlFor(entry) == entry.id

\* A timer is the closure of its callback: the completedSteps and totalSteps
\* it reads.  (completedSteps is a variable of the run, but it only changes
\* after the run has cleared the timer, or never once the run has failed.)
\* `tickers` is the bag of live timers; timers with equal closures behave
\* alike, so the handle setInterval returns is the timer itself.
Ticker(completedSteps, totalSteps) ==
  [completedSteps |-> completedSteps, totalSteps |-> totalSteps]

NoInterval == Ticker(0, 0)

NoRun == [active |-> FALSE, audioVideoFile |-> NoEntry, pdfFile |-> NoEntry,
          totalSteps |-> 0, completedSteps |-> 0, awaiting |-> "none",
          progressInterval |-> NoInterval]
NoProbe == [fn |-> "none", step |-> "type", aType |-> "null", aMethod |-> "null",
            result |-> "none"]

Titles == { "", "Q4 Sales Pitch" }
Descriptions == { "", "pacing" }

audioVideoFile == AudioVideoFileOf(files)
pdfFile == PdfFileOf(files)

\* the state after construction, but for the three navigation values
\* the theme at rest: dark, stored and applied
ThemeSettled ==
  /\ isDark = TRUE /\ mounted = TRUE
  /\ storedTheme = "dark" /\ rootLight = FALSE
  /\ prefersDark = TRUE /\ effects = "idle"

Constructed(step, aType, aMethod) ==
  /\ currentStep = step
  /\ analysisType = aType
  /\ audioMethod = aMethod
  /\ slideDirection = "forward"
  /\ files = << >>
  /\ isDragging = FALSE
  /\ title = ""
  /\ description = ""
  /\ recordedAudioUrl = NullUrl
  /\ isAnalyzing = FALSE
  /\ analysisComplete = FALSE
  /\ audioResult = "null"
  /\ pdfResult = "null"
  /\ analysisError = "null"
  /\ analysisProgress = 0
  /\ currentAnalysisStep = ""
  /\ dataTransfer = << >>
  /\ run = NoRun
  /\ requests = {}
  /\ replies = {}
  /\ tickers = EmptyBag

Init ==
  /\ Constructed("type", "null", "null")
  /\ ThemeSettled
  /\ probe = NoProbe

\* a faulty canProceed, for comparison: any staged file lets an input step pass
CanProceedAnyFile(step, aType, aMethod, list) ==
  CASE step = "type" -> aType # "null"
    [] step = "audio-method" -> aMethod # "null"
    [] step \in { "audio-upload", "audio-record", "slides" } -> list # << >>
    [] step = "context" -> TRUE
    [] OTHER -> FALSE

\* a faulty canProceed, for comparison: the file steps need no staged file
CanProceedIgnoringFiles(step, aType, aMethod, list) ==
  CASE step = "type" -> aType # "null"
    [] step = "audio-method" -> aMethod # "null"
    [] step \in { "audio-upload", "audio-record", "slides", "context" } -> TRUE
    [] OTHER -> FALSE

CanProceed(step, aType, aMethod, list) ==
  CASE step = "type" -> aType # "null"
    [] step = "audio-method" -> aMethod # "null"
    [] step = "audio-upload" -> AudioVideoFileOf(list) # NoEntry
    [] step = "audio-record" -> AudioVideoFileOf(list) # NoEntry
    [] step = "slides" -> PdfFileOf(list) # NoEntry
    [] step = "context" -> TRUE
    [] OTHER -> FALSE

canProceed == CanProceed(currentStep, analysisType, audioMethod, files)

(***************************************************************************)
(* Staging handlers                                                         *)
(***************************************************************************)
\* the files of fileList that handleFiles pushes onto newFiles
\* validateFile and getFileType of every file the model submits
Classified ==
  [file \in AllFiles \cup StagingFiles \cup WizardFiles |->
     [valid |-> validateFile(file), fileType |-> getFileType(file)]]

Accepted(fileList, targetType) ==
  SelectSeq(fileList, LAMBDA file :
    /\ Classified[file].valid
    /\ \/ targetType = "audio" /\ Classified[file].fileType \in { "audio", "video" }
       \/ targetType = "pdf" /\ Classified[file].fileType = "pdf")

NewFiles(list, fileList, targetType) ==
  LET acc == Accepted(fileList, targetType)
  IN  [i \in 1..Len(acc) |->
         [file |-> acc[i], id |-> FreshId(list, i), type |-> Classified[acc[i]].fileType]]

\* a faulty setFiles updater, for comparison: nothing is filtered out
KeptByHandleFilesAll(prev, targetType) == prev

\* what the setFiles updater of handleFiles keeps of the previous list
KeptByHandleFiles(prev, targetType) ==
  SelectSeq(prev, LAMBDA f :
    IF targetType = "audio" THEN f.type = "pdf"
    ELSE (f.type = "audio" \/ f.type = "video"))

FilesAfterHandleFiles(list, fileList, targetType) ==
  LET newFiles == NewFiles(list, fileList, targetType)
  IN  IF Len(newFiles) > 0
      THEN KeptByHandleFiles(list, targetType) \o newFiles
      ELSE list

\* setRecordedAudioUrl runs once per accepted audio/video file: the last wins
UrlAfterHandleFiles(url, list, fileList, targetType) ==
  LET newFiles == NewFiles(list, fileList, targetType)
  IN  IF targetType = "audio" /\ Len(newFiles) > 0
      THEN UrlFor(newFiles[Len(newFiles)])
      ELSE url

handleFiles(fileList, targetType) ==
  /\ files' = FilesAfterHandleFiles(files, fileList, targetType)
  /\ recordedAudioUrl' = UrlAfterHandleFiles(recordedAudioUrl, files, fileList, targetType)

handleRecordingComplete(file) ==
  LET newFile == [file |-> file, id |-> FreshId(files, 1), type |-> "audio"]
  IN  /\ files' = SelectSeq(files, LAMBDA f : f.type # "audio" /\ f.type # "video")
                    \o << newFile >>
      /\ recordedAudioUrl' = UrlFor(newFile)

\* prev.filter(f => f.id !== entry.id)
WithoutId(list, entry) == SelectSeq(list, LAMBDA f : f.id # entry.id)

(***************************************************************************)
(* User events.  The wizard container is rendered on the input steps only. *)
(* dataTransfer is the FileList of a drag in progress: while the user      *)
(* holds files no click or key reaches the page, and the browser fires     *)
(* drop only on a zone whose dragover handler ran last (isDragging).       *)
(***************************************************************************)
WizardShown == currentStep \in InputSteps
Idle == WizardShown /\ dataTransfer = << >>

AudioDropzoneShown == currentStep = "audio-upload" /\ audioVideoFile = NoEntry
PdfDropzoneShown == currentStep = "slides" /\ pdfFile = NoEntry
DropTarget == IF currentStep = "slides" THEN "pdf" ELSE "audio"

SetAnalysisType(t) ==
  /\ Idle /\ currentStep = "type"
  /\ analysisType' = t
  /\ UNCHANGED << currentStep, audioMethod, slideDirection, fileVars, analysisVars,
                  envVars, probe, themeVars >>

SetAudioMethod(m) ==
  /\ Idle /\ currentStep = "audio-method"
  /\ audioMethod' = m
  /\ UNCHANGED << currentStep, analysisType, slideDirection, fileVars, analysisVars,
                  envVars, probe, themeVars >>

\* the dropzone's onClick: a file input without `multiple` hands over one file
PickFile(file) ==
  /\ Idle
  /\ AudioDropzoneShown \/ PdfDropzoneShown
  /\ handleFiles(<< file >>, DropTarget)
  /\ UNCHANGED << wizardVars, isDragging, title, description, analysisVars,
                  envVars, probe, themeVars >>

handleDragOver(fileList) ==
  /\ WizardShown
  /\ AudioDropzoneShown \/ PdfDropzoneShown
  /\ dataTransfer = << >> \/ dataTransfer = fileList
  /\ isDragging' = TRUE
  /\ dataTransfer' = fileList
  /\ UNCHANGED << wizardVars, files, title, description, recordedAudioUrl,
                  analysisVars, run, requests, replies, tickers, probe, themeVars >>

handleDragLeave ==
  /\ WizardShown
  /\ AudioDropzoneShown \/ PdfDropzoneShown
  /\ isDragging
  /\ isDragging' = FALSE
  /\ UNCHANGED << wizardVars, files, title, description, recordedAudioUrl,
                  analysisVars, envVars, probe, themeVars >>

\* the user lets go of the files outside the dropzone
DragEnd ==
  /\ dataTransfer # << >>
  /\ ~isDragging
  /\ dataTransfer' = << >>
  /\ UNCHANGED << wizardVars, fileVars, analysisVars, run, requests, replies,
                  tickers, probe, themeVars >>

handleDrop ==
  /\ WizardShown
  /\ AudioDropzoneShown \/ PdfDropzoneShown
  /\ isDragging
  /\ dataTransfer # << >>
  /\ isDragging' = FALSE
  /\ handleFiles(dataTransfer, DropTarget)
  /\ dataTransfer' = << >>
  /\ UNCHANGED << wizardVars, title, description, analysisVars,
                  run, requests, replies, tickers, probe, themeVars >>

RecordingComplete ==
  /\ Idle
  /\ currentStep = "audio-record" /\ audioVideoFile = NoEntry
  /\ handleRecordingComplete(RecordedFile)
  /\ UNCHANGED << wizardVars, isDragging, title, description, analysisVars,
                  envVars, probe, themeVars >>

\* onClick of the remove button next to the staged audio/video file
removeAudio ==
  /\ files' = WithoutId(files, audioVideoFile)
  /\ recordedAudioUrl' = NullUrl

\* onClick of the remove button next to the staged PDF
removePdf ==
  /\ files' = WithoutId(files, pdfFile)
  /\ UNCHANGED recordedAudioUrl

RemoveAudio ==
  /\ Idle
  /\ currentStep \in { "audio-upload", "audio-record" }
  /\ audioVideoFile # NoEntry
  /\ removeAudio
  /\ UNCHANGED << wizardVars, isDragging, title, description, analysisVars,
                  envVars, probe, themeVars >>

RemovePdf ==
  /\ Idle
  /\ currentStep = "slides"
  /\ pdfFile # NoEntry
  /\ removePdf
  /\ UNCHANGED << wizardVars, isDragging, title, description,
                  analysisVars, envVars, probe, themeVars >>

SetTitle(v) ==
  /\ Idle /\ currentStep = "context"
  /\ title' = v
  /\ UNCHANGED << wizardVars, files, isDragging, description, recordedAudioUrl,
                  analysisVars, envVars, probe, themeVars >>

SetDescription(v) ==
  /\ Idle /\ currentStep = "context"
  /\ description' = v
  /\ UNCHANGED << wizardVars, files, isDragging, title, recordedAudioUrl,
                  analysisVars, envVars, probe, themeVars >>

goToStep(step, direction) ==
  /\ slideDirection' = direction
  /\ currentStep' = step

handleBack ==
  /\ Idle
  /\ currentStep # "type"
  /\ LET prev == getPrevStep(currentStep, analysisType, audioMethod)
     IN  IF prev # "null" THEN goToStep(prev, "backward")
         ELSE UNCHANGED << currentStep, slideDirection >>
  /\ UNCHANGED << analysisType, audioMethod, fileVars, analysisVars, envVars, probe, themeVars >>

(***************************************************************************)
(* Submission: handleAnalyze, split at its awaits                           *)
(***************************************************************************)
\* increments a tick can add: samples of Math.random() * 10
TickIncrements == { 9 }

\* ((completedSteps + 0.9) / totalSteps) * 100
Target(t) == ((10 * t.completedSteps + 9) * 10) \div t.totalSteps

\* a faulty snap, for comparison: the step just completed is not counted
BoundaryOfPrevious(completedSteps, totalSteps) ==
  ((completedSteps - 1) * 100) \div totalSteps

\* (completedSteps / totalSteps) * 100
Boundary(completedSteps, totalSteps) == (completedSteps * 100) \div totalSteps

\* setInterval(callback, 300)
Started(ts, handle) == ts (+) SetToBag({ handle })

\* clearInterval(handle)
Cleared(ts, handle) == ts (-) SetToBag({ handle })

Request(endpoint, entry) == [endpoint |-> endpoint, file |-> entry.file]

\* the endpoint the run awaits first, given the entries its closure captured
FirstEndpoint(audioEntry, pdfEntry) ==
  IF audioEntry # NoEntry THEN AnalyzeEndpoint
  ELSE IF pdfEntry # NoEntry THEN AnalyzePdfEndpoint
  ELSE "none"

\* a faulty handleAnalyze, for comparison: both requests are sent at once
RequestsAtStartBoth(audioEntry, pdfEntry) ==
  (IF audioEntry # NoEntry THEN { Request(AnalyzeEndpoint, audioEntry) } ELSE {})
  \cup (IF pdfEntry # NoEntry THEN { Request(AnalyzePdfEndpoint, pdfEntry) } ELSE {})

\* the requests issued before handleAnalyze first suspends
RequestsAtStart(audioEntry, pdfEntry) ==
  IF audioEntry # NoEntry THEN { Request(AnalyzeEndpoint, audioEntry) }
  ELSE IF pdfEntry # NoEntry THEN { Request(AnalyzePdfEndpoint, pdfEntry) }
  ELSE {}

AnalysisLabel(endpoint) ==
  IF endpoint = AnalyzeEndpoint THEN "Analyzing speech..."
  ELSE IF endpoint = AnalyzePdfEndpoint THEN "Analyzing slide deck..."
  ELSE ""

\* a faulty completion, for comparison: the step changes without the flag
CompleteWithoutFlag ==
  /\ goToStep("results", "forward")
  /\ isAnalyzing' = FALSE
  /\ currentAnalysisStep' = ""
  /\ run' = NoRun
  /\ UNCHANGED analysisComplete

\* setAnalysisComplete(true); goToStep("results"); finally { ... }
Complete ==
  /\ analysisComplete' = TRUE
  /\ goToStep("results", "forward")
  /\ isAnalyzing' = FALSE
  /\ currentAnalysisStep' = ""
  /\ run' = NoRun

handleAnalyze ==
  LET audioEntry == audioVideoFile
      pdfEntry == pdfFile
      totalSteps == (IF audioEntry # NoEntry THEN 1 ELSE 0)
                    + (IF pdfEntry # NoEntry THEN 1 ELSE 0)
      first == FirstEndpoint(audioEntry, pdfEntry)
      handle == Ticker(0, totalSteps)
  IN  /\ BagCardinality(tickers) < MaxTickers
      /\ analysisError' = "null"
      /\ analysisProgress' = 0
      /\ audioResult' = "null"
      /\ pdfResult' = "null"
      /\ requests' = requests \cup RequestsAtStart(audioEntry, pdfEntry)
      /\ IF first # "none"
         THEN /\ goToStep("analyzing", "forward")
              /\ isAnalyzing' = TRUE
              /\ currentAnalysisStep' = AnalysisLabel(first)
              /\ tickers' = Started(tickers, handle)
              /\ run' = [active |-> TRUE, audioVideoFile |-> audioEntry,
                         pdfFile |-> pdfEntry, totalSteps |-> totalSteps,
                         completedSteps |-> 0, awaiting |-> first,
                         progressInterval |-> handle]
              /\ UNCHANGED analysisComplete
         ELSE /\ Complete
              /\ UNCHANGED tickers

handleNext ==
  /\ Idle
  /\ canProceed
  /\ LET next == getNextStep(currentStep, analysisType, audioMethod)
     IN  IF next = "null"
         THEN UNCHANGED << currentStep, slideDirection, analysisVars, run,
                           requests, tickers >>
         ELSE IF next = "analyzing"
         THEN handleAnalyze
         ELSE /\ goToStep(next, "forward")
              /\ UNCHANGED << analysisVars, run, requests, tickers >>
  /\ UNCHANGED << analysisType, audioMethod, fileVars, dataTransfer, replies, probe, themeVars >>

\* the server answers a request
ServerRespond(req, reply) ==
  /\ req \in requests
  /\ requests' = requests \ { req }
  /\ replies' = replies \cup { [endpoint |-> req.endpoint, reply |-> reply] }
  /\ UNCHANGED << wizardVars, fileVars, analysisVars, dataTransfer, run, tickers, probe, themeVars >>

\* catch (error) { ... } finally { ... }: the interval is not cleared here
Failed(message) ==
  /\ analysisError' = message
  /\ goToStep("context", "backward")
  /\ isAnalyzing' = FALSE
  /\ currentAnalysisStep' = ""
  /\ run' = NoRun
  /\ UNCHANGED << analysisComplete, audioResult, pdfResult, analysisProgress,
                  requests, tickers >>

\* the await of analyzeAudio returns or throws
ResumeAfterAudio(msg) ==
  /\ run.active /\ run.awaiting = AnalyzeEndpoint
  /\ msg \in replies /\ msg.endpoint = AnalyzeEndpoint
  /\ replies' = replies \ { msg }
  /\ IF msg.reply.status = "ok"
     THEN LET completedSteps == run.completedSteps + 1
              handle == Ticker(completedSteps, run.totalSteps)
          IN  /\ audioResult' = AudioAnalysisResponse
              /\ analysisProgress' = Boundary(completedSteps, run.totalSteps)
              /\ IF run.pdfFile # NoEntry
                 THEN /\ currentAnalysisStep' = AnalysisLabel(AnalyzePdfEndpoint)
                      /\ tickers' = Started(Cleared(tickers, run.progressInterval), handle)
                      /\ requests' = requests \cup { Request(AnalyzePdfEndpoint, run.pdfFile) }
                      /\ run' = [run EXCEPT !.completedSteps = completedSteps,
                                            !.awaiting = AnalyzePdfEndpoint,
                                            !.progressInterval = handle]
                      /\ UNCHANGED << currentStep, slideDirection, isAnalyzing,
                                      analysisComplete >>
                 ELSE /\ tickers' = Cleared(tickers, run.progressInterval)
                      /\ Complete
                      /\ UNCHANGED requests
              /\ UNCHANGED << pdfResult, analysisError >>
     ELSE Failed(analyzeAudioError(msg.reply))
  /\ UNCHANGED << analysisType, audioMethod, fileVars, dataTransfer, probe, themeVars >>

\* the await of analyzePDF returns or throws
ResumeAfterPdf(msg) ==
  /\ run.active /\ run.awaiting = AnalyzePdfEndpoint
  /\ msg \in replies /\ msg.endpoint = AnalyzePdfEndpoint
  /\ replies' = replies \ { msg }
  /\ IF msg.reply.status = "ok"
     THEN /\ tickers' = Cleared(tickers, run.progressInterval)
          /\ pdfResult' = PDFAnalysisResponse
          /\ analysisProgress' = 100
          /\ Complete
          /\ UNCHANGED << audioResult, analysisError, requests >>
     ELSE Failed(analyzePDFError(msg.reply))
  /\ UNCHANGED << analysisType, audioMethod, fileVars, dataTransfer, probe, themeVars >>

\* a faulty timer callback, for comparison: at its target it stops adding but
\* never clears its interval
TickWithoutClear(t, inc) ==
  /\ BagIn(t, tickers)
  /\ IF analysisProgress >= Target(t)
     THEN UNCHANGED << tickers, analysisProgress >>
     ELSE /\ analysisProgress' = analysisProgress + inc
          /\ UNCHANGED tickers
  /\ UNCHANGED << wizardVars, fileVars, isAnalyzing, analysisComplete, audioResult,
                  pdfResult, analysisError, currentAnalysisStep, dataTransfer, run,
                  requests, replies, probe, themeVars >>

\* one firing of a setInterval callback
Tick(t, inc) ==
  /\ BagIn(t, tickers)
  /\ IF analysisProgress >= Target(t)
     THEN /\ tickers' = Cleared(tickers, t)
          /\ UNCHANGED analysisProgress
     ELSE /\ analysisProgress' = analysisProgress + inc
          /\ UNCHANGED tickers
  /\ UNCHANGED << wizardVars, fileVars, isAnalyzing, analysisComplete, audioResult,
                  pdfResult, analysisError, currentAnalysisStep, dataTransfer, run,
                  requests, replies, probe, themeVars >>

\* a faulty handleReset, for comparison: the recording URL and the progress stay
HandleResetKeepingUrl ==
  /\ currentStep = "results"
  /\ audioResult # "null" \/ pdfResult # "null"
  /\ files' = << >>
  /\ title' = ""
  /\ description' = ""
  /\ analysisComplete' = FALSE
  /\ audioResult' = "null"
  /\ pdfResult' = "null"
  /\ analysisError' = "null"
  /\ analysisType' = "null"
  /\ audioMethod' = "null"
  /\ goToStep("type", "backward")
  /\ UNCHANGED << isDragging, isAnalyzing, currentAnalysisStep, envVars, probe, themeVars,
                  recordedAudioUrl, analysisProgress >>

\* the "New Analysis" button of the results view
handleReset ==
  /\ currentStep = "results"
  /\ audioResult # "null" \/ pdfResult # "null"
  /\ files' = << >>
  /\ title' = ""
  /\ description' = ""
  /\ analysisComplete' = FALSE
  /\ audioResult' = "null"
  /\ pdfResult' = "null"
  /\ analysisError' = "null"
  /\ analysisProgress' = 0
  /\ recordedAudioUrl' = NullUrl
  /\ analysisType' = "null"
  /\ audioMethod' = "null"
  /\ goToStep("type", "backward")
  /\ UNCHANGED << isDragging, isAnalyzing, currentAnalysisStep, envVars, probe, themeVars >>

(***************************************************************************)
(* Step progress indicator                                                  *)
(***************************************************************************)
\* Array.prototype.indexOf: the 0-based index of the first occurrence, or -1
IndexOf(list, x) ==
  IF \E i \in 1..Len(list) : list[i] = x
  THEN (CHOOSE i \in 1..Len(list) : list[i] = x /\ \A j \in 1..(i - 1) : list[j] # x) - 1
  ELSE -1

\* the steps array built by getStepNumber
StepsOf(aType, aMethod) ==
  << "type" >>
    \o (IF aType = "speech" \/ aType = "both"
        THEN << "audio-method",
                IF aMethod = "upload" THEN "audio-upload" ELSE "audio-record" >>
        ELSE << >>)
    \o (IF aType = "slides" \/ aType = "both" THEN << "slides" >> ELSE << >>)
    \o << "context" >>

\* a faulty getStepNumber, for comparison: the audio step is always audio-upload
GetStepNumberUploadOnly(step, aType, aMethod) ==
  LET idx == IndexOf(StepsOf(aType, "upload"), step)
  IN  IF idx >= 0 THEN idx + 1 ELSE 1

getStepNumber(step, aType, aMethod) ==
  LET idx == IndexOf(StepsOf(aType, aMethod), step)
  IN  IF idx >= 0 THEN idx + 1 ELSE 1

getTotalSteps(aType) ==
  2 + (IF aType = "speech" \/ aType = "both" THEN 2 ELSE 0)
    + (IF aType = "slides" \/ aType = "both" THEN 1 ELSE 0)

(***************************************************************************)
(* The wizard                                                               *)
(***************************************************************************)
Next ==
  \/ \E t \in AnalysisTypes : SetAnalysisType(t)
  \/ \E m \in AudioMethods : SetAudioMethod(m)
  \/ \E file \in WizardFiles : PickFile(file)
  \/ \E file \in WizardFiles : handleDragOver(<< file >>)
  \/ handleDragLeave
  \/ DragEnd
  \/ handleDrop
  \/ RecordingComplete
  \/ RemoveAudio
  \/ RemovePdf
  \/ \E v \in Titles : SetTitle(v)
  \/ \E v \in Descriptions : SetDescription(v)
  \/ handleBack
  \/ handleNext
  \/ \E req \in requests, reply \in ServerReplies : ServerRespond(req, reply)
  \/ \E msg \in replies : ResumeAfterAudio(msg)
  \/ \E msg \in replies : ResumeAfterPdf(msg)
  \/ \E t \in BagToSet(tickers), inc \in TickIncrements : Tick(t, inc)
  \/ handleReset

Spec == Init /\ [][Next]_vars

(***************************************************************************)
(* The dropzones: the upload, record and slides steps as the wizard first  *)
(* shows them, driven with every combination of mime type and file name    *)
(* and with drops of several files.                                        *)
(***************************************************************************)
StagingLists == FileListsOf(StagingFiles)

IntakeDrags == { << file >> : file \in AllFiles } \cup StagingLists

InitIntake ==
  /\ \/ Constructed("audio-upload", "speech", "upload")
     \/ Constructed("audio-record", "speech", "record")
     \/ Constructed("slides", "slides", "null")
  /\ ThemeSettled
  /\ probe = NoProbe

NextIntake ==
  \/ \E file \in AllFiles : PickFile(file)
  \/ \E fileList \in IntakeDrags : handleDragOver(fileList)
  \/ handleDragLeave
  \/ DragEnd
  \/ handleDrop
  \/ RecordingComplete
  \/ RemoveAudio
  \/ RemovePdf

SpecIntake == InitIntake /\ [][NextIntake]_vars

(***************************************************************************)
(* The staging handlers called directly, in any order: what handleFiles,   *)
(* handleRecordingComplete and the remove buttons do to any staged list,   *)
(* whichever dropzone is rendered (the page's hidden file input calls      *)
(* handleFiles on every step).                                             *)
(***************************************************************************)
CallHandleFiles(fileList, targetType) ==
  /\ handleFiles(fileList, targetType)
  /\ UNCHANGED << wizardVars, isDragging, title, description, analysisVars,
                  envVars, probe, themeVars >>

CallHandleRecordingComplete ==
  /\ handleRecordingComplete(RecordedFile)
  /\ UNCHANGED << wizardVars, isDragging, title, description, analysisVars,
                  envVars, probe, themeVars >>

ClickRemoveAudio ==
  /\ audioVideoFile # NoEntry
  /\ removeAudio
  /\ UNCHANGED << wizardVars, isDragging, title, description, analysisVars,
                  envVars, probe, themeVars >>

ClickRemovePdf ==
  /\ pdfFile # NoEntry
  /\ removePdf
  /\ UNCHANGED << wizardVars, isDragging, title, description, analysisVars,
                  envVars, probe, themeVars >>

NextStaging ==
  \/ \E fileList \in StagingLists, targetType \in { "audio", "pdf" } :
       CallHandleFiles(fileList, targetType)
  \/ CallHandleRecordingComplete
  \/ ClickRemoveAudio
  \/ ClickRemovePdf

SpecStaging == Init /\ [][NextStaging]_vars

(***************************************************************************)
(* The navigation functions on every argument triple                        *)
(***************************************************************************)
InitNav ==
  /\ Constructed("type", "null", "null")
  /\ ThemeSettled
  /\ probe \in [fn : { "pending" }, step : WizardSteps,
                aType : AnalysisTypes \cup { "null" },
                aMethod : AudioMethods \cup { "null" }, result : { "none" }]

CallGetNextStep ==
  /\ probe.fn = "pending"
  /\ probe' = [probe EXCEPT !.fn = "getNextStep",
                 !.result = getNextStep(probe.step, probe.aType, probe.aMethod)]
  /\ UNCHANGED << wizardVars, fileVars, analysisVars, envVars, themeVars >>

CallGetPrevStep ==
  /\ probe.fn = "pending"
  /\ probe' = [probe EXCEPT !.fn = "getPrevStep",
                 !.result = getPrevStep(probe.step, probe.aType, probe.aMethod)]
  /\ UNCHANGED << wizardVars, fileVars, analysisVars, envVars, themeVars >>

NextNav == CallGetNextStep \/ CallGetPrevStep

SpecNav == InitNav /\ [][NextNav]_vars

(***************************************************************************)
(* The submission with every tick size: the shortest way through the       *)
(* wizard (uploads only, no Back), then handleAnalyze with its timers.     *)
(* Math.random() * 10 lies in [0, 10): its whole part is 0..9, and a tick  *)
(* of 0 changes nothing.                                                    *)
(***************************************************************************)
ProgressIncrements == 1..9

ProgressFiles == { WavFile, PdfFile }

ProgressReplies == { OkReply, NetworkFailure }

NextProgress ==
  \/ \E t \in AnalysisTypes : SetAnalysisType(t)
  \/ \E m \in { "upload" } : SetAudioMethod(m)
  \/ \E file \in ProgressFiles : PickFile(file)
  \/ handleNext
  \/ \E req \in requests, reply \in ProgressReplies : ServerRespond(req, reply)
  \/ \E msg \in replies : ResumeAfterAudio(msg)
  \/ \E msg \in replies : ResumeAfterPdf(msg)
  \/ \E t \in BagToSet(tickers), inc \in ProgressIncrements : Tick(t, inc)
  \/ handleReset

SpecProgress == Init /\ [][NextProgress]_vars

\* every closure a run of one or two inputs hands to setInterval
ProgressTickers == { Ticker(0, 1), Ticker(0, 2), Ticker(1, 2) }

\* The same submission with its scheduling: every issued request is answered,
\* the continuation of an await runs once its promise has settled, and an
\* interval that was not cleared fires again after 300 ms.
FairProgress ==
  /\ WF_vars(\E req \in requests, reply \in ProgressReplies : ServerRespond(req, reply))
  /\ WF_vars(\E msg \in replies : ResumeAfterAudio(msg))
  /\ WF_vars(\E msg \in replies : ResumeAfterPdf(msg))
  /\ \A t \in ProgressTickers : WF_vars(\E inc \in ProgressIncrements : Tick(t, inc))

SpecProgressFair == Init /\ [][NextProgress]_vars /\ FairProgress

(***************************************************************************)
(* The theme: the inline script of the layout, ThemeProvider's two effects *)
(* and toggleTheme, next to the first choice of the wizard.  React runs    *)
(* the pending effects of a commit before it handles the next event.       *)
(***************************************************************************)
\* what localStorage may hold for "theme" when the page loads
StoredThemes == { Absent, "", "dark", "light", "auto" }

\* the class the inline script of the layout leaves on the root element
ScriptClass(stored, prefers) == stored = "light" \/ (~Truthy(stored) /\ ~prefers)

\* a faulty init effect, for comparison: the system preference is not read
InitialIsDarkIgnoringSystem(stored, prefers) ==
  IF Truthy(stored) THEN stored = "dark" ELSE TRUE

\* the value the init effect gives isDark
InitialIsDark(stored, prefers) == IF Truthy(stored) THEN stored = "dark" ELSE prefers

\* a faulty apply effect, for comparison: the class is set the wrong way round
AppliedClassInverted(dark, isMounted, current) ==
  IF ~isMounted THEN current ELSE dark

\* the apply effect on the class list, run with the values its render saw
AppliedClass(dark, isMounted, current) ==
  IF ~isMounted THEN current ELSE ~dark

\* a faulty apply effect, for comparison: it does not wait for mounted
PersistedThemeUnguarded(dark, isMounted, current) ==
  IF dark THEN "dark" ELSE "light"

\* the apply effect on localStorage, run with the values its render saw
PersistedTheme(dark, isMounted, current) ==
  IF ~isMounted THEN current
  ELSE IF dark THEN "dark" ELSE "light"

\* the session so far: what the page was loaded with and the toggles since
ThemeLog(stored, prefers, toggles) ==
  [fn |-> "theme", stored |-> stored, prefers |-> prefers, toggles |-> toggles]

InitTheme ==
  /\ Constructed("type", "null", "null")
  /\ isDark = TRUE /\ mounted = FALSE
  /\ storedTheme \in StoredThemes
  /\ prefersDark \in BOOLEAN
  /\ rootLight = FALSE
  /\ effects = "html"
  /\ probe = ThemeLog(storedTheme, prefersDark, 0)

\* the page loads: the script in <head> runs, then React commits the first
\* render (isDark true, mounted false) with both effects pending
InlineScript ==
  /\ effects = "html"
  /\ rootLight' = ScriptClass(storedTheme, prefersDark)
  /\ effects' = "mount"
  /\ UNCHANGED << wizardVars, fileVars, analysisVars, envVars, probe,
                  isDark, mounted, storedTheme, prefersDark >>

\* the effects of the first commit: the init effect, then the apply effect
\* with the values of the first render; the state change schedules the
\* apply effect again
MountEffects ==
  /\ effects = "mount"
  /\ isDark' = InitialIsDark(storedTheme, prefersDark)
  /\ mounted' = TRUE
  /\ rootLight' = AppliedClass(isDark, mounted, rootLight)
  /\ storedTheme' = PersistedTheme(isDark, mounted, storedTheme)
  /\ effects' = "apply"
  /\ UNCHANGED << wizardVars, fileVars, analysisVars, envVars, probe, prefersDark >>

\* the apply effect after a render that changed isDark or mounted
ApplyEffect ==
  /\ effects = "apply"
  /\ rootLight' = AppliedClass(isDark, mounted, rootLight)
  /\ storedTheme' = PersistedTheme(isDark, mounted, storedTheme)
  /\ effects' = "idle"
  /\ UNCHANGED << wizardVars, fileVars, analysisVars, envVars, probe,
                  isDark, mounted, prefersDark >>

toggleTheme ==
  /\ effects = "idle"
  /\ probe.toggles < MaxToggles
  /\ isDark' = ~isDark
  /\ effects' = "apply"
  /\ probe' = [probe EXCEPT !.toggles = @ + 1]
  /\ UNCHANGED << wizardVars, fileVars, analysisVars, envVars,
                  mounted, storedTheme, rootLight, prefersDark >>

NextTheme ==
  \/ InlineScript
  \/ MountEffects
  \/ ApplyEffect
  \/ toggleTheme
  \/ \E t \in AnalysisTypes : effects = "idle" /\ SetAnalysisType(t)

SpecTheme == InitTheme /\ [][NextTheme]_vars

(***************************************************************************)
(* The API client alone: one failed call of each operation on every body   *)
(***************************************************************************)
DetailTexts == { Absent, "", "model overloaded", "rate limited", "file too large",
                 "unsupported format" }
ErrorTexts == { Absent, "", "bad file", "timeout", "internal error" }

\* the non-2xx responses: a JSON body with any detail and error, or no JSON
FailedResponses ==
  { ErrorReply(TRUE, d, e) : d \in DetailTexts, e \in ErrorTexts }
    \cup { ErrorReply(FALSE, Absent, Absent) }

ApiOperations == { "analyzeAudio", "analyzePDF", "generateImprovedPitch" }

ThrownBy(operation, reply) ==
  CASE operation = "analyzeAudio" -> analyzeAudioError(reply)
    [] operation = "analyzePDF" -> analyzePDFError(reply)
    [] operation = "generateImprovedPitch" -> generateImprovedPitchError(reply)

InitApi ==
  /\ Constructed("type", "null", "null")
  /\ ThemeSettled
  /\ probe \in [fn : { "pending" }, reply : FailedResponses \cup { NetworkFailure },
                result : { "none" }]

CallApi(operation) ==
  /\ probe.fn = "pending"
  /\ probe' = [probe EXCEPT !.fn = operation, !.result = ThrownBy(operation, probe.reply)]
  /\ UNCHANGED << wizardVars, fileVars, analysisVars, envVars, themeVars >>

NextApi == \E operation \in ApiOperations : CallApi(operation)

SpecApi == InitApi /\ [][NextApi]_vars

(***************************************************************************)
(* The result helpers alone: calculateSpeedDistribution on every word list *)
(***************************************************************************)
SpeedLabels == { "Too Slow", "Ideal", "Fast", "Too Fast" }

\* WordAnalysis, reduced to the field the function reads
Words == [speed : SpeedLabels]
WordLists == UNION { [1..n -> Words] : n \in 0..MaxWords }

EmptyDistribution == [label \in SpeedLabels |-> 0]

\* wordAnalysis.forEach((word) => { distribution[word.speed]++; })
RECURSIVE ForEachWord(_, _)
ForEachWord(wordAnalysis, distribution) ==
  IF wordAnalysis = << >> THEN distribution
  ELSE ForEachWord(Tail(wordAnalysis),
                   [distribution EXCEPT ![Head(wordAnalysis).speed] = @ + 1])

\* a faulty calculateSpeedDistribution, for comparison: the first word is skipped
CalculateSpeedDistributionFromSecond(wordAnalysis) ==
  IF wordAnalysis = << >> THEN EmptyDistribution
  ELSE ForEachWord(Tail(wordAnalysis), EmptyDistribution)

calculateSpeedDistribution(wordAnalysis) == ForEachWord(wordAnalysis, EmptyDistribution)

InitSpeed ==
  /\ Constructed("type", "null", "null")
  /\ ThemeSettled
  /\ probe \in [fn : { "pending" }, words : WordLists, result : { "none" }]

CallCalculateSpeedDistribution ==
  /\ probe.fn = "pending"
  /\ probe' = [probe EXCEPT !.fn = "calculateSpeedDistribution",
                 !.result = calculateSpeedDistribution(probe.words)]
  /\ UNCHANGED << wizardVars, fileVars, analysisVars, envVars, themeVars >>

NextSpeed == CallCalculateSpeedDistribution

SpecSpeed == InitSpeed /\ [][NextSpeed]_vars

(***************************************************************************)
(* The preview URLs: the browser's registry of object URLs, which          *)
(* URL.createObjectURL extends and only URL.revokeObjectURL shrinks.  The  *)
(* page creates a URL per accepted audio/video file and has no call of     *)
(* revokeObjectURL; `probe` holds the registry as the number of live URLs. *)
(***************************************************************************)
\* URLs the model lets a session create
MaxUrls == 3

ObjectUrls(live) == [fn |-> "urls", live |-> live]

\* URL.createObjectURL(file), once per accepted file of an audio drop
CreateObjectURLs(registry, list, fileList, targetType) ==
  IF targetType = "audio"
  THEN ObjectUrls(registry.live + Len(NewFiles(list, fileList, targetType)))
  ELSE registry

UrlFiles == { WavFile, PdfFile }

InitUrls ==
  /\ Constructed("type", "null", "null")
  /\ ThemeSettled
  /\ probe = ObjectUrls(0)

\* the dropzone's onClick, with what handleFiles does to the registry
PickFileCreatingUrl(file) ==
  /\ Idle
  /\ AudioDropzoneShown \/ PdfDropzoneShown
  /\ DropTarget = "audio" => probe.live < MaxUrls
  /\ handleFiles(<< file >>, DropTarget)
  /\ probe' = CreateObjectURLs(probe, files, << file >>, DropTarget)
  /\ UNCHANGED << wizardVars, isDragging, title, description, analysisVars,
                  envVars, themeVars >>

NextUrls ==
  \/ \E t \in AnalysisTypes : SetAnalysisType(t)
  \/ \E m \in { "upload" } : SetAudioMethod(m)
  \/ \E file \in UrlFiles : PickFileCreatingUrl(file)
  \/ RemoveAudio
  \/ handleNext
  \/ \E req \in requests : ServerRespond(req, OkReply)
  \/ \E msg \in replies : ResumeAfterAudio(msg)
  \/ \E msg \in replies : ResumeAfterPdf(msg)
  \/ \E t \in BagToSet(tickers), inc \in TickIncrements : Tick(t, inc)
  \/ handleReset

SpecUrls == InitUrls /\ [][NextUrls]_vars

(***************************************************************************)
(* Properties                                                               *)
(***************************************************************************)
NavArgs == << probe.step, probe.aType, probe.aMethod >>

\* C1: getNextStep returns, for every (currentStep, analysisType, audioMethod):
\* from type, audio-method for speech/both, slides for slides, null when unset;
\* from audio-method, the audio step of the method, null when unset; from an
\* audio step, slides for both and context otherwise; from slides, context;
\* from context, analyzing; from analyzing and results, null.
C1_GetNextStepTable ==
  probe.fn = "getNextStep" =>
    LET step == probe.step
        aType == probe.aType
        aMethod == probe.aMethod
        r == probe.result
    IN  /\ step = "type" /\ aType \in { "speech", "both" } => r = "audio-method"
        /\ step = "type" /\ aType = "slides" => r = "slides"
        /\ step = "type" /\ aType = "null" => r = "null"
        /\ step = "audio-method" /\ aMethod = "upload" => r = "audio-upload"
        /\ step = "audio-method" /\ aMethod = "record" => r = "audio-record"
        /\ step = "audio-method" /\ aMethod = "null" => r = "null"
        /\ step \in { "audio-upload", "audio-record" } /\ aType = "both" => r = "slides"
        /\ step \in { "audio-upload", "audio-record" } /\ aType # "both" => r = "context"
        /\ step = "slides" => r = "context"
        /\ step = "context" => r = "analyzing"
        /\ step \in { "analyzing", "results" } => r = "null"

C1_Witness ==
  /\ probe.fn = "getNextStep"
  /\ NavArgs = << "audio-upload", "both", "upload" >>
  /\ probe.result = "slides"

\* C2: getPrevStep returns: from audio-method, type; from an audio step,
\* audio-method; from slides, type for slides and the audio step of the
\* method for both; from context, slides for slides/both and otherwise the
\* audio step of the method; from type, analyzing and results, null.
C2_GetPrevStepTable ==
  probe.fn = "getPrevStep" =>
    LET step == probe.step
        aType == probe.aType
        aMethod == probe.aMethod
        r == probe.result
        audioStep == IF aMethod = "upload" THEN "audio-upload" ELSE "audio-record"
    IN  /\ step = "audio-method" => r = "type"
        /\ step \in { "audio-upload", "audio-record" } => r = "audio-method"
        /\ step = "slides" /\ aType = "slides" => r = "type"
        /\ step = "slides" /\ aType = "both" /\ aMethod # "null" => r = audioStep
        /\ step = "context" /\ aType \in { "slides", "both" } => r = "slides"
        /\ step = "context" /\ aType \notin { "slides", "both" } /\ aMethod # "null"
             => r = audioStep
        /\ step \in { "type", "analyzing", "results" } => r = "null"

C2_Witness ==
  /\ probe.fn = "getPrevStep"
  /\ NavArgs = << "slides", "both", "record" >>
  /\ probe.result = "audio-record"

Prev(step) == getPrevStep(step, analysisType, audioMethod)
Following(step) == getNextStep(step, analysisType, audioMethod)

\* C3 as claimed: in every reachable state, with s the current step, if
\* getPrevStep gives a step p then getNextStep at p gives s, and if
\* getNextStep gives a step n then getPrevStep at n gives s.
C3_RoundTripEveryStep ==
  /\ Prev(currentStep) # "null" => Following(Prev(currentStep)) = currentStep
  /\ Following(currentStep) # "null" => Prev(Following(currentStep)) = currentStep

\* C3 amended: the same, except that the step after context, analyzing, has
\* no way back: the second half holds whenever getNextStep gives an input step.
C3_RoundTripInputSteps ==
  /\ Prev(currentStep) # "null" => Following(Prev(currentStep)) = currentStep
  /\ Following(currentStep) \in InputSteps => Prev(Following(currentStep)) = currentStep

C3_Witness ==
  /\ currentStep = "slides" /\ analysisType = "both" /\ audioMethod = "record"
  /\ slideDirection = "backward"
  /\ Prev(currentStep) = "audio-record" /\ Following(currentStep) = "context"

HasKind(list, kinds) == \E i \in 1..Len(list) : list[i].type \in kinds

\* what canProceed() is claimed to be
C4_DataPresent ==
  CASE currentStep = "type" -> analysisType # "null"
    [] currentStep = "audio-method" -> audioMethod # "null"
    [] currentStep \in { "audio-upload", "audio-record" } -> HasKind(files, { "audio", "video" })
    [] currentStep = "slides" -> HasKind(files, { "pdf" })
    [] currentStep = "context" -> TRUE
    [] currentStep \in { "analyzing", "results" } -> FALSE

\* a step of the Continue/Analyze button that moves the wizard
C4_MovedForward ==
  /\ currentStep \in InputSteps
  /\ currentStep' # currentStep
  /\ slideDirection' = "forward"

\* C4: in every reachable state canProceed() is true exactly when the data
\* the current step requires is present (and false at analyzing and results),
\* and the Continue/Analyze button moves the wizard forward only from states
\* where it is true.
C4_CanProceedGate ==
  /\ [](canProceed <=> C4_DataPresent)
  /\ [][C4_MovedForward => C4_DataPresent]_vars

C4_Witness ==
  /\ currentStep = "slides" /\ analysisType = "both" /\ slideDirection = "forward"
  /\ HasKind(files, { "audio", "video" })
  /\ ~canProceed

InFlight(endpoint) == \E m \in requests \cup replies : m.endpoint = endpoint

\* the suspended run takes a reply with this status from this endpoint
Consumes(endpoint, ok) ==
  \E msg \in replies :
    /\ msg \notin replies'
    /\ msg.endpoint = endpoint
    /\ (msg.reply.status = "ok") = ok

\* C5: in a submission with both an audio/video file and a PDF staged,
\* /analyze and /analyze-pdf are never in flight together, /analyze-pdf is in
\* flight only after /analyze has returned its result, and the step that
\* takes the successful /analyze-pdf reply puts the wizard on results with
\* audioResult and pdfResult set and analysisComplete true.
C5_Sequential ==
  /\ [](/\ ~(InFlight(AnalyzeEndpoint) /\ InFlight(AnalyzePdfEndpoint))
        /\ InFlight(AnalyzePdfEndpoint) /\ run.audioVideoFile # NoEntry
             => audioResult # "null" /\ run.completedSteps = 1
        /\ InFlight(AnalyzeEndpoint) => pdfResult = "null" /\ run.completedSteps = 0)
  /\ [][run.audioVideoFile # NoEntry /\ Consumes(AnalyzePdfEndpoint, TRUE)
          => /\ currentStep' = "results"
             /\ audioResult' # "null" /\ pdfResult' # "null"
             /\ analysisComplete']_vars

C5_Witness ==
  /\ currentStep = "results"
  /\ HasKind(files, { "audio", "video" }) /\ HasKind(files, { "pdf" })
  /\ audioResult = AudioAnalysisResponse /\ pdfResult = PDFAnalysisResponse
  /\ analysisComplete
  /\ requests = {} /\ replies = {}

\* the reply a failing step takes
FailedReply(msg) == msg \in replies /\ msg \notin replies' /\ msg.reply.status # "ok"

C6_InputsKept ==
  (currentStep = "analyzing" \/ currentStep' = "analyzing")
    => UNCHANGED << files, title, description, analysisType, audioMethod >>

C6_BackToContext(msg) ==
  /\ currentStep = "analyzing" /\ currentStep' = "context"
  /\ analysisError' # "null"
  /\ analysisError' = ErrorOf(msg.endpoint, msg.reply)
  /\ UNCHANGED << files, title, description, analysisType, audioMethod >>

HasDetail(msg) ==
  /\ msg.endpoint = AnalyzeEndpoint
  /\ msg.reply.status = "error" /\ msg.reply.json
  /\ msg.reply.detail # Absent

\* C6 as claimed: a failing reply returns the wizard from analyzing to context
\* with analysisError set to the failure's message, which is exactly the
\* detail text whenever /analyze answered non-2xx with a JSON detail field;
\* files, title, description, analysisType and audioMethod do not change
\* from the press of Analyze on.
C6_FailureAnyDetail ==
  [][/\ C6_InputsKept
     /\ \A msg \in replies : FailedReply(msg) =>
          /\ C6_BackToContext(msg)
          /\ HasDetail(msg) => analysisError' = msg.reply.detail]_vars

\* C6 amended: the same, the detail text being the message whenever it is
\* not the empty string.
C6_FailureNonEmptyDetail ==
  [][/\ C6_InputsKept
     /\ \A msg \in replies : FailedReply(msg) =>
          /\ C6_BackToContext(msg)
          /\ HasDetail(msg) /\ msg.reply.detail # "" => analysisError' = msg.reply.detail]_vars

C6_Witness ==
  /\ currentStep = "context" /\ slideDirection = "backward"
  /\ analysisError = "model overloaded"
  /\ HasKind(files, { "audio", "video" }) /\ HasKind(files, { "pdf" })
  /\ title # "" /\ description # ""
  /\ ~isAnalyzing

CountKind(list, kinds) == Cardinality({ i \in 1..Len(list) : list[i].type \in kinds })

\* C7: the staged list holds at most one audio/video entry and at most one
\* PDF entry.
C7_SingleOccupancy ==
  /\ CountKind(files, { "audio", "video" }) <= 1
  /\ CountKind(files, { "pdf" }) <= 1

\* entries of the next list that the step created
Staged(kinds) ==
  { i \in 1..Len(files') : files'[i].id \notin Ids(files) /\ files'[i].type \in kinds }

OfKind(list, kinds) == SelectSeq(list, LAMBDA f : f.type \in kinds)

\* none of the entries of these kinds staged before the step is left after it
Replaced(kinds) ==
  \A i \in 1..Len(files') : files'[i].type \in kinds => files'[i].id \notin Ids(files)

\* C8: staging for the audio target (an upload or a finished recording)
\* replaces the audio/video entries and leaves every PDF entry as it was;
\* staging for the pdf target replaces the PDF entries and leaves every
\* audio/video entry and recordedAudioUrl as they were.
C8_StagingFrame ==
  [][/\ Staged({ "audio", "video" }) # {} =>
          /\ Replaced({ "audio", "video" })
          /\ OfKind(files', { "pdf" }) = OfKind(files, { "pdf" })
     /\ Staged({ "pdf" }) # {} =>
          /\ Replaced({ "pdf" })
          /\ OfKind(files', { "audio", "video" }) = OfKind(files, { "audio", "video" })
          /\ recordedAudioUrl' = recordedAudioUrl]_vars

C8_Witness ==
  /\ files = << [file |-> PdfFile, id |-> 2, type |-> "pdf"],
                [file |-> Mp4File, id |-> 3, type |-> "video"] >>
  /\ recordedAudioUrl = 3

\* the step is a drop of the dragged files on the dropzone of the step
DropStep == isDragging /\ dataTransfer # << >> /\ dataTransfer' = << >>

HasExtension(file, extensions) ==
  \E ext \in extensions : EndsWith(ToLowerCase(file.name), ext)

C9_Mimes ==
  { << "audio", "mpeg" >>, << "audio", "mp3" >>, << "audio", "wav" >>,
    << "video", "mp4" >>, << "audio", "webm" >>, << "video", "webm" >>,
    << "application", "pdf" >> }

\* neither the type nor the lowercased name of the file is in an accepted set
C9_Invalid(file) ==
  /\ file.type \notin C9_Mimes
  /\ ~HasExtension(file, { Mp3Ext, Mp4Ext, WavExt, WebmExt, PdfExt })

\* C9: a file that matches neither accepted set is never staged, and
\* submitting it changes nothing: the staged list and recordedAudioUrl stay
\* as they were, no error message is set, canProceed() keeps its value and
\* no request is sent.
C9_InvalidFileIgnored ==
  /\ [](\A i \in 1..Len(files) : ~C9_Invalid(files[i].file))
  /\ [][DropStep /\ (\A i \in 1..Len(dataTransfer) : C9_Invalid(dataTransfer[i]))
          => /\ files' = files
             /\ recordedAudioUrl' = recordedAudioUrl
             /\ analysisError' = analysisError
             /\ canProceed' <=> canProceed
             /\ requests' = requests]_vars

C9_Witness ==
  /\ currentStep = "slides" /\ PdfDropzoneShown
  /\ isDragging /\ dataTransfer = << TxtFile >>
  /\ audioVideoFile # NoEntry
  /\ analysisError = "model overloaded"

C10_AudioVideo(file) ==
  \/ file.type \in { << "audio", "mpeg" >>, << "audio", "mp3" >>, << "audio", "wav" >>,
                     << "video", "mp4" >>, << "audio", "webm" >>, << "video", "webm" >> }
  \/ HasExtension(file, { Mp3Ext, Mp4Ext, WavExt, WebmExt })

C10_Pdf(file) == file.type = << "application", "pdf" >> \/ HasExtension(file, { PdfExt })

StagedAs(file, kinds) ==
  \E i \in 1..Len(files') : files'[i].file = file /\ files'[i].type \in kinds

\* C10: a single file dropped on the audio dropzone is staged as audio/video
\* whenever its type is one of the six audio/video types or its lowercased
\* name ends in .mp3, .mp4, .wav or .webm, and a single file dropped on the
\* slides dropzone is staged as the PDF whenever its type is application/pdf
\* or its name ends in .pdf, whatever the other attribute of the file is.
C10_AcceptedIsStaged ==
  [][DropStep /\ Len(dataTransfer) = 1 =>
       /\ AudioDropzoneShown /\ C10_AudioVideo(dataTransfer[1])
            => StagedAs(dataTransfer[1], { "audio", "video" })
       /\ PdfDropzoneShown /\ C10_Pdf(dataTransfer[1])
            => StagedAs(dataTransfer[1], { "pdf" })]_vars

\* the step is a press of the "New Analysis" button
ResetStep == currentStep = "results" /\ currentStep' = "type"

\* C11: handleReset leaves the wizard in the initial session state: step
\* type, analysisType and audioMethod null, nothing staged, recordedAudioUrl
\* null, title and description empty, the results and the error null,
\* analysisComplete and isAnalyzing false, analysisProgress 0; only
\* slideDirection may differ from its initial value.
C11_ResetIsFreshSession ==
  [][ResetStep =>
       /\ currentStep' = "type"
       /\ analysisType' = "null" /\ audioMethod' = "null"
       /\ files' = << >>
       /\ recordedAudioUrl' = NullUrl
       /\ title' = "" /\ description' = ""
       /\ audioResult' = "null" /\ pdfResult' = "null" /\ analysisError' = "null"
       /\ analysisComplete' = FALSE
       /\ isAnalyzing' = FALSE
       /\ analysisProgress' = 0]_vars

C11_Witness ==
  /\ currentStep = "type" /\ slideDirection = "backward"
  /\ analysisType = "null" /\ audioMethod = "null"
  /\ files = << >> /\ recordedAudioUrl = NullUrl
  /\ analysisProgress = 0 /\ ~analysisComplete

\* the generic messages of an operation
C12_Fallbacks(operation) ==
  CASE operation = "analyzeAudio" -> { "Failed to analyze audio", "Analysis failed" }
    [] operation = "analyzePDF" -> { "Failed to analyze PDF", "PDF analysis failed" }
    [] operation = "generateImprovedPitch" -> { "Failed to generate improved pitch" }

\* C12: each of analyzeAudio, analyzePDF and generateImprovedPitch fails on a
\* non-2xx response with the detail text when the JSON body has a detail
\* field, with the error text when it has an error field and no detail, and
\* with a generic message of the operation when the body is not JSON or has
\* neither field.  (Fields holding the empty string are left undecided.)
C12_SameMessageRule ==
  probe.fn \in ApiOperations /\ probe.reply.status = "error" =>
    LET body == probe.reply
    IN  /\ body.json /\ Truthy(body.detail) => probe.result = body.detail
        /\ body.json /\ body.detail = Absent /\ Truthy(body.error)
             => probe.result = body.error
        /\ ~body.json \/ (body.detail = Absent /\ body.error = Absent)
             => probe.result \in C12_Fallbacks(probe.fn)

\* a theme value was in storage when the page loaded (an empty item is none)
C13_ValuePresent == probe.stored # Absent /\ probe.stored # ""

\* C13: once ThemeProvider has initialized, isDark is (stored value = "dark")
\* when a theme value was in storage and the system preference when none
\* was; until then nothing is written to storage and, after the script of
\* the page has run, the class of the root element is left alone.
C13_InitializedFromStorage ==
  /\ [](mounted /\ probe.toggles = 0 =>
          isDark = (IF C13_ValuePresent THEN probe.stored = "dark" ELSE probe.prefers))
  /\ [][~mounted =>
          /\ storedTheme' = storedTheme
          /\ effects # "html" => rootLight' = rootLight]_vars

C13_Witness ==
  /\ mounted /\ effects = "apply" /\ probe.toggles = 0
  /\ probe.stored = Absent /\ ~probe.prefers
  /\ ~isDark /\ storedTheme = Absent

\* C14: once the effects have run, the stored theme is "dark" exactly when
\* isDark is true and "light" otherwise, and the root element carries the
\* class light exactly when isDark is false; each toggleTheme flips isDark.
C14_StoredAndAppliedFollowIsDark ==
  /\ [](effects = "idle" =>
          /\ storedTheme = (IF isDark THEN "dark" ELSE "light")
          /\ rootLight <=> ~isDark)
  /\ [][probe.toggles' # probe.toggles => isDark' = ~isDark]_vars

C14_Witness ==
  /\ effects = "idle" /\ probe.toggles = 2
  /\ probe.stored = "dark"
  /\ isDark /\ storedTheme = "dark" /\ ~rootLight

\* the page was loaded with no stored theme and a light system preference
C15_LightSystemNoStored == probe.fn = "theme" /\ probe.stored = Absent /\ ~probe.prefers

\* C15 as claimed: with no stored theme and a light system preference, after
\* a toggle (and its effects) the stored value is "light" and the root
\* element carries the class light.
C15_ToggleGivesLight ==
  C15_LightSystemNoStored /\ probe.toggles = 1 /\ effects = "idle"
    => storedTheme = "light" /\ rootLight

\* C15 amended: with no stored theme and a light system preference, the
\* initialization alone stores "light" and applies the class light; the
\* first toggle then stores "dark" and removes the class.
C15_ToggleGivesDark ==
  /\ C15_LightSystemNoStored /\ probe.toggles = 0 /\ effects = "idle"
       => storedTheme = "light" /\ rootLight
  /\ C15_LightSystemNoStored /\ probe.toggles = 1 /\ effects = "idle"
       => storedTheme = "dark" /\ ~rootLight

C15_Witness ==
  /\ C15_LightSystemNoStored /\ probe.toggles = 1 /\ effects = "idle"
  /\ isDark /\ storedTheme = "dark" /\ ~rootLight

\* C16: calculateSpeedDistribution gives, for each of the four labels, the
\* number of words of the list that carry it: four zeros for the empty
\* list, and counts that add up to the length of the list.
C16_CountsPerLabel ==
  probe.fn = "calculateSpeedDistribution" =>
    LET words == probe.words
        counts == probe.result
    IN  /\ DOMAIN counts = { "Too Slow", "Ideal", "Fast", "Too Fast" }
        /\ \A label \in DOMAIN counts :
             counts[label] = Cardinality({ i \in 1..Len(words) : words[i].speed = label })
        /\ words = << >> => \A label \in DOMAIN counts : counts[label] = 0
        /\ counts["Too Slow"] + counts["Ideal"] + counts["Fast"] + counts["Too Fast"]
             = Len(words)

C16_Witness ==
  /\ probe.fn = "calculateSpeedDistribution"
  /\ probe.words = << [speed |-> "Fast"], [speed |-> "Ideal"], [speed |-> "Fast"] >>
  /\ probe.result["Fast"] = 2 /\ probe.result["Ideal"] = 1
  /\ probe.result["Too Slow"] = 0 /\ probe.result["Too Fast"] = 0

\* the ordered list of input steps for the chosen analysisType and audioMethod
C17_Path ==
  LET withSpeech == analysisType \in { "speech", "both" }
      withSlides == analysisType \in { "slides", "both" }
  IN  << "type" >>
        \o (IF withSpeech THEN << "audio-method" >> ELSE << >>)
        \o (IF withSpeech /\ audioMethod = "upload" THEN << "audio-upload" >> ELSE << >>)
        \o (IF withSpeech /\ audioMethod = "record" THEN << "audio-record" >> ELSE << >>)
        \o (IF withSlides THEN << "slides" >> ELSE << >>)
        \o << "context" >>

C17_StepNumber == getStepNumber(currentStep, analysisType, audioMethod)

\* C17: getTotalSteps is 2, plus 2 with speech, plus 1 with slides; at every
\* input step the wizard reaches, currentStep is in the ordered list of
\* steps for the chosen analysisType and audioMethod, getStepNumber is its
\* 1-based position there, lies between 1 and getTotalSteps, and equals
\* getTotalSteps at context.
C17_StepIndicator ==
  /\ getTotalSteps(analysisType)
       = 2 + (IF analysisType \in { "speech", "both" } THEN 2 ELSE 0)
           + (IF analysisType \in { "slides", "both" } THEN 1 ELSE 0)
  /\ currentStep \in InputSteps =>
       /\ \E i \in 1..Len(C17_Path) : C17_Path[i] = currentStep /\ C17_StepNumber = i
       /\ 1 <= C17_StepNumber /\ C17_StepNumber <= getTotalSteps(analysisType)
       /\ currentStep = "context" => C17_StepNumber = getTotalSteps(analysisType)

C17_Witness ==
  /\ currentStep = "slides" /\ analysisType = "both" /\ audioMethod = "record"
  /\ C17_StepNumber = 4 /\ getTotalSteps(analysisType) = 5

\* C18: once analysisType has a non-null value it keeps that value through
\* every step other than handleReset.
C18_AnalysisTypeChosenOnce ==
  [][analysisType # "null" /\ ~ResetStep => analysisType' = analysisType]_vars

\* C19: analysisProgress lies between 0 and 100, for submissions of one
\* input and of two.
C19_ProgressWithinRange == 0 <= analysisProgress /\ analysisProgress <= 100

\* a timer callback raised the progress while the run awaits a reply
C20_TickInFlight == run.active /\ run' = run /\ analysisProgress' > analysisProgress

\* C20: while a request is in flight no tick raises analysisProgress above
\* the target (completedSteps + 0.9) / totalSteps * 100 of the run.
C20_TickStaysBelowTarget ==
  [][C20_TickInFlight =>
       analysisProgress' * run.totalSteps <= (10 * run.completedSteps + 9) * 10]_vars

\* the suspended run takes a successful reply
C21_Success == run.active /\ \E msg \in replies :
                 msg \notin replies' /\ msg.reply.status = "ok"

\* C21: when the k-th of the totalSteps requests of a submission succeeds,
\* analysisProgress is set to exactly k / totalSteps * 100, and it is
\* exactly 100 when the wizard enters the results step.
C21_SnapsToBoundary ==
  [][/\ C21_Success =>
          analysisProgress' * run.totalSteps = (run.completedSteps + 1) * 100
     /\ currentStep # "results" /\ currentStep' = "results" =>
          analysisProgress' = 100]_vars

C21_Witness ==
  /\ currentStep = "analyzing"
  /\ run.totalSteps = 2 /\ run.completedSteps = 1
  /\ audioResult = AudioAnalysisResponse
  /\ analysisProgress = 50

\* C22: a progress ticker is active only while its request is in flight: no
\* ticker is active at the context or results step or outside a run, and at
\* most one ticker is active at any time.
C22_TickerOnlyInFlight ==
  /\ currentStep \in { "context", "results" } => tickers = EmptyBag
  /\ tickers # EmptyBag => run.active /\ tickers = SetToBag({ run.progressInterval })
  /\ BagCardinality(tickers) <= 1

\* C23: every preview URL created for a staged audio/video file is released
\* when that file is replaced or removed and when the session is reset: the
\* number of created-but-unreleased URLs never exceeds the number of staged
\* audio/video files.
C23_UrlsReleased == probe.live <= CountKind(files, { "audio", "video" })

\* C24: if /analyze succeeds and /analyze-pdf then fails in the same
\* submission, the audio result already received is discarded: when the
\* wizard is back at the context step with the error set, audioResult and
\* pdfResult are both null and analysisComplete is false.
C24_PartialSuccessDiscarded ==
  currentStep = "context" /\ analysisError # "null"
    => audioResult = "null" /\ pdfResult = "null" /\ ~analysisComplete

\* C25: whenever currentStep is context or analyzing, every file slot
\* required by analysisType is filled (an audio/video file for speech and
\* both, a PDF for slides and both); hence at least one file is staged at
\* every submission and totalSteps in handleAnalyze is never 0.
C25_RequiredSlotsFilled ==
  /\ currentStep \in { "context", "analyzing" } =>
       /\ analysisType \in AnalysisTypes
       /\ analysisType \in { "speech", "both" } => audioVideoFile # NoEntry
       /\ analysisType \in { "slides", "both" } => pdfFile # NoEntry
       /\ files # << >>
  /\ run.active => run.totalSteps > 0

\* a submission of both slots whose audio file was staged after the PDF
C25_Witness ==
  /\ currentStep = "analyzing" /\ analysisType = "both"
  /\ run.active /\ run.totalSteps = 2
  /\ audioVideoFile # NoEntry /\ pdfFile # NoEntry
  /\ audioVideoFile.id > pdfFile.id

\* C26: the requests of a submission match the chosen analysis type:
\* /analyze is issued only when analysisType is speech or both, and
\* /analyze-pdf only when analysisType is slides or both.
C26_RequestsMatchType ==
  \A req \in requests :
    /\ req.endpoint = AnalyzeEndpoint => analysisType \in { "speech", "both" }
    /\ req.endpoint = AnalyzePdfEndpoint => analysisType \in { "slides", "both" }

\* C27: recordedAudioUrl always matches the staged audio: it is null
\* whenever no audio/video file is staged, and whenever one is staged it is
\* the URL created for (or delivered with) exactly the entry that files.find
\* selects for submission.
C27_UrlMatchesStagedAudio ==
  IF audioVideoFile = NoEntry
  THEN recordedAudioUrl = NullUrl
  ELSE recordedAudioUrl = UrlFor(audioVideoFile)

\* C28: within one analysis run, from pressing Analyze until the wizard
\* reaches results or returns to context, analysisProgress never decreases
\* after the initial reset to 0.
C28_ProgressNeverDecreases ==
  [][run.active => analysisProgress' >= analysisProgress]_vars

C30_AnalysisFlags ==
  /\ isAnalyzing <=> currentStep = "analyzing"
  /\ currentStep = "results" =>
       /\ analysisComplete
       /\ analysisError = "null"
       /\ audioResult # "null" <=> audioVideoFile # NoEntry
       /\ pdfResult # "null" <=> pdfFile # NoEntry

\* the results of a submission with only an audio/video file staged
C30_Witness ==
  /\ currentStep = "results" /\ ~isAnalyzing /\ analysisComplete
  /\ audioResult # "null" /\ pdfResult = "null"
  /\ audioVideoFile # NoEntry /\ pdfFile = NoEntry
  /\ analysisProgress = 100

====
